---- MODULE Spec2Model ----
(***************************************************************************)
(* A model of the VocaDB metadata plugin (src/vocadb.py): preferred-name   *)
(* resolution, artist-credit disambiguation, track assembly and indexing,  *)
(* the two lookup entry points (album_for_id, candidates) and the genre    *)
(* backfill.  Remote responses and configuration are inputs drawn from     *)
(* small sets; Python exceptions are modelled as a "raised" outcome.       *)
(***************************************************************************)
EXTENDS Integers, Sequences, FiniteSets, TLC

VARIABLES
    \* ---- get_preferred_name (SpecName)
    lang,           \* self.lang: the ordered language-preference list
    entity,         \* the JSON object whose name is resolved
    pnPc,           \* "call" | "done"
    pnOut,          \* the returned (item_name, language) pair
    \* ---- album_for_id / get_album_info (SpecArtist, SpecLookup)
    cfg,            \* self.config
    albumResp,      \* what the remote answers to the album request
    tracksResp,     \* what the remote answers to the track-list request
    pc,             \* position in album_for_id / get_album_info
    item,           \* the decoded album JSON
    artist, artist_id, artist_credit, artist_corrected, va,
                    \* locals of get_album_info
    tiers,          \* the priority tiers the resolver loop has run (history)
    tracks,         \* the value tracks_for_album_id returned
    track_index,    \* the running counter of the indexing loop
    result,         \* what album_for_id returned to the host
    \* ---- candidates / get_albums (SpecSearch)
    searchResp,     \* what the remote answers to the album search
    albumTracks,    \* its answer to the track-list request of each found album
    sPc,            \* position in candidates / get_albums
    converted,      \* the AlbumInfo list built so far by line 77
    sResult,        \* what candidates returned to the host
    \* ---- imported / add_genre_to_item (SpecGenre)
    task,           \* the import task handed to the hook
    tagResp,        \* what the remote answers to the album's tag request
    trackTagResp,   \* its answer to each track's tag request
    albumRec,       \* the album's record in the host library: genre, stored
    trackRecs,      \* the records of the album's tracks
    gPc,            \* position in imported / add_genre_to_item
    gTrack          \* position of the loop over item.items()

nameVars == <<lang, entity, pnPc, pnOut>>
lookupVars == <<cfg, albumResp, tracksResp, pc, item, artist, artist_id,
                artist_credit, artist_corrected, va, tiers, tracks,
                track_index, result>>
searchVars == <<searchResp, albumTracks, sPc, converted, sResult>>
genreVars == <<task, tagResp, trackTagResp, albumRec, trackRecs, gPc, gTrack>>
vars == <<nameVars, lookupVars, searchVars, genreVars>>

\* Python's None and an optional value: None is <<>>, a present value x is <<x>>
None == <<>>
Some(x) == <<x>>

(***************************************************************************)
(* Bounds                                                                  *)
(***************************************************************************)
MaxLangs == 2       \* longest language-preference list
MaxNames == 2       \* longest entity name list
MaxCredits == 2     \* longest artist-credit list of a release
MaxTracks == 3      \* longest track list of a release
MaxAlbums == 2      \* most albums in a search response
MaxSearchTracks == 1 \* longest track list of a found album
MaxGenreTracks == 2 \* most tracks of an imported album

\* The sequences over S of length lo..hi
SeqsOf(S, lo, hi) == UNION {[1..n -> S] : n \in lo..hi}

Min(S) == CHOOSE x \in S : \A y \in S : x <= y
Max(S) == CHOOSE x \in S : \A y \in S : x >= y

(***************************************************************************)
(* get_preferred_name                                                      *)
(***************************************************************************)
Languages == {"Japanese", "English"}
\* a language tag as it may appear in a configured entry or in a name
LangTags == Languages \cup {""}
NameValues == {"", "Foo", "X"}

LocalizedNames == [language : LangTags, value : NameValues]

\* An entity: 'names' may be absent (hasNames = FALSE)
Entities ==
    [hasNames : {TRUE}, names : SeqsOf(LocalizedNames, 0, MaxNames),
     defaultName : {"Dflt"}, defaultNameLanguage : {"Romaji"}]
    \cup
    [hasNames : {FALSE}, names : {<<>>},
     defaultName : {"Dflt"}, defaultNameLanguage : {"Romaji"}]

\* self.lang = config['lang-priority'].split(','): never an empty list
LangLists == SeqsOf(LangTags, 1, MaxLangs)

\* inner loop: the first name, in entity-name order, whose language is l (0: none)
FirstMatch(names, l) ==
    LET hits == {i \in 1..Len(names) : names[i].language = l}
    IN  IF hits = {} THEN 0 ELSE Min(hits)

\* outer loop from position k on: stops at the first language whose first
\* matching name has a non-empty (truthy) value
RECURSIVE WalkLangs(_, _, _)
WalkLangs(langs, k, names) ==
    IF k > Len(langs) THEN [item_name |-> "", language |-> ""]
    ELSE LET m == FirstMatch(names, langs[k])
         IN  IF m # 0 /\ names[m].value # ""
             THEN [item_name |-> names[m].value, language |-> names[m].language]
             ELSE WalkLangs(langs, k + 1, names)

\* a plausible slip: the guard on self.lang[0] is dropped
get_preferred_name_noguard(ent, langs) ==
    LET w == IF ent.hasNames THEN WalkLangs(langs, 1, ent.names)
             ELSE [item_name |-> "", language |-> ""]
    IN  IF w.item_name = ""
        THEN [item_name |-> ent.defaultName, language |-> ent.defaultNameLanguage]
        ELSE w

get_preferred_name(ent, langs) ==
    LET w == IF Len(langs) > 0 /\ langs[1] # "" /\ ent.hasNames
             THEN WalkLangs(langs, 1, ent.names)
             ELSE [item_name |-> "", language |-> ""]
    IN  IF w.item_name = ""
        THEN [item_name |-> ent.defaultName, language |-> ent.defaultNameLanguage]
        ELSE w

(***************************************************************************)
(* Strings.  A string is a sequence of tokens, so that the "feat." cut and *)
(* the comma replacement of get_album_info act on something.  The token    *)
(* " feat." stands for a match of \s+feat\.                                *)
(***************************************************************************)
VariousArtists == <<"Various artists">>
FeatToken == " feat."

ArtistStrings == {<<"A">>, VariousArtists, <<"A", ",", "B", FeatToken, "C">>}

\* lines 250-260: cut at the last " feat." (the regex is greedy), commas of
\* the kept part become semicolons; no match raises inside the try and
\* leaves the string alone; then the sentinel is re-capitalised
CleanupArtist(s) ==
    LET hits == {i \in 1..Len(s) : s[i] = FeatToken}
        cut  == IF hits = {} THEN s
                ELSE [i \in 1..(Max(hits) - 1) |-> IF s[i] = "," THEN ";" ELSE s[i]]
    IN  IF cut = VariousArtists THEN <<"Various Artists">> ELSE cut

(***************************************************************************)
(* Artist credits of a release                                             *)
(***************************************************************************)
ExcludedCircle == <<"ExCircle">>
NoLink == [name |-> <<>>, id |-> 0]

\* 'artist' (the linked artist entry) may be absent: hasArtist = FALSE
MkCredit(bare, linked, cat, role, support) ==
    [name       |-> bare,
     hasArtist  |-> linked # NoLink,
     artist     |-> linked,
     categories |-> {cat},
     roles      |-> {role},
     isSupport  |-> support]

ProducerCredits ==
    { MkCredit(<<"p (credit)">>, [name |-> <<"P">>, id |-> 1], "Producer", "Default", FALSE),
      MkCredit(<<"q (credit)">>, NoLink, "Producer", "Default", FALSE),
      MkCredit(<<"p (credit)">>, [name |-> <<"P">>, id |-> 1], "Producer", "Default", TRUE) }

CircleCredits ==
    { MkCredit(<<"e (credit)">>, [name |-> ExcludedCircle, id |-> 2], "Circle", "Default", FALSE),
      MkCredit(<<"c (credit)">>, [name |-> <<"C">>, id |-> 3], "Circle", "Default", FALSE),
      MkCredit(<<"c (credit)">>, [name |-> <<"C">>, id |-> 3], "Circle", "Publisher", FALSE),
      MkCredit(<<"d (credit)">>, NoLink, "Circle", "Default", FALSE),
      MkCredit(<<"c (credit)">>, [name |-> <<"C">>, id |-> 3], "Circle", "Default", TRUE) }

LabelCredits ==
    { MkCredit(<<"L">>, [name |-> <<"L">>, id |-> 4], "Label", "Default", FALSE) }

Credits == ProducerCredits \cup CircleCredits \cup LabelCredits

(***************************************************************************)
(* Configuration (self.config)                                             *)
(***************************************************************************)
Priorities == { <<"producers", "circles">>, <<"circles", "producers">>,
                <<"producers">>, <<"circles">> }

Configs == [canonical_artists : BOOLEAN,
            artist_priority   : Priorities,
            circles_exclude   : {{}, {ExcludedCircle}},
            separator         : {", "},
            whitelist         : {TRUE}]

\* the defaults of __init__
DefaultConfig == [canonical_artists |-> TRUE,
                  artist_priority   |-> <<"producers", "circles">>,
                  circles_exclude   |-> {},
                  separator         |-> ", ",
                  whitelist         |-> TRUE]

(***************************************************************************)
(* The artist resolver of get_album_info                                   *)
(***************************************************************************)
\* a plausible slip: support credits are not filtered out
IsProducerAnySupport(a) == "Producer" \in a.categories

IsProducer(a) == "Producer" \in a.categories /\ ~a.isSupport
IsCircle(a) == "Circle" \in a.categories /\ ~a.isSupport

Producers(it) == SelectSeq(it.artists, IsProducer)
Circles(it) == SelectSeq(it.artists, IsCircle)

\* the flag passed to AlbumInfo as va
IsVA(it) == it.artistString = VariousArtists \/ it.discType = "Compilation"

\* the inner loop over circles, from position i on; st holds the locals
\* artist, artist_id, artist_credit, artist_corrected
RECURSIVE CirclesLoop(_, _, _, _, _, _)
CirclesLoop(st, circles, i, nproducers, orig_artist, config) ==
    IF i > Len(circles) THEN st
    ELSE LET a == circles[i]
         IN  IF a.hasArtist
             THEN IF a.artist.name \in config.circles_exclude /\ ~(nproducers > 1)
                  THEN st                                       \* break
                  ELSE IF "Default" \in a.roles \/ orig_artist = VariousArtists
                  THEN [st EXCEPT !.artist_credit = Some(orig_artist),
                                  !.artist = a.artist.name,
                                  !.artist_id = Some(a.artist.id),
                                  !.artist_corrected = TRUE]    \* break
                  ELSE CirclesLoop(st, circles, i + 1, nproducers, orig_artist, config)
             ELSE CirclesLoop([st EXCEPT !.artist = a.name],
                              circles, i + 1, nproducers, orig_artist, config)

\* a plausible slip: artist_corrected is not set, so the loop goes on
ProducersTierNoStop(st, producers, orig_artist) ==
    IF Len(producers) = 1
    THEN LET a == producers[1]
         IN  [st EXCEPT !.artist_credit = Some(orig_artist),
                        !.artist = IF a.hasArtist THEN a.artist.name ELSE a.name,
                        !.artist_id = IF a.hasArtist THEN Some(a.artist.id) ELSE None]
    ELSE st

ProducersTier(st, producers, orig_artist) ==
    IF Len(producers) = 1
    THEN LET a == producers[1]
         IN  [st EXCEPT !.artist_credit = Some(orig_artist),
                        !.artist = IF a.hasArtist THEN a.artist.name ELSE a.name,
                        !.artist_id = IF a.hasArtist THEN Some(a.artist.id) ELSE None,
                        !.artist_corrected = TRUE]
    ELSE st

\* the loop over artist_priority, from position k on; st.tiers records the
\* tiers the loop has run
RECURSIVE PriorityLoop(_, _, _, _, _)
PriorityLoop(st, it, config, orig_artist, k) ==
    IF k > Len(config.artist_priority) THEN st
    ELSE LET val == config.artist_priority[k]
             ran == [st EXCEPT !.tiers = Append(st.tiers, val)]
             st1 == IF val = "circles"
                    THEN CirclesLoop(ran, Circles(it), 1, Len(Producers(it)),
                                     orig_artist, config)
                    ELSE IF val = "producers"
                    THEN ProducersTier(ran, Producers(it), orig_artist)
                    ELSE ran
         IN  IF st1.artist_corrected THEN st1
             ELSE PriorityLoop(st1, it, config, orig_artist, k + 1)

\* lines 179-182: the locals before the resolver
StartLocals(it) ==
    [artist |-> it.artistString, artist_id |-> None, artist_credit |-> None,
     artist_corrected |-> FALSE, tiers |-> <<>>]

\* lines 185-217
Disambiguated(it, config, st) ==
    IF it.hasArtists /\ ~config.canonical_artists
    THEN PriorityLoop(st, it, config, st.artist, 1)
    ELSE st

\* lines 231-235
Label(it) ==
    LET hits == {i \in 1..Len(it.artists) : "Label" \in it.artists[i].categories}
    IN  IF hits = {} THEN None ELSE Some(it.artists[Min(hits)].name)

(***************************************************************************)
(* Track entries of the track-list response, and get_track_info            *)
(***************************************************************************)
MkSongCredit(bare, linked, roles) ==
    [name |-> bare, hasArtist |-> linked # NoLink, artist |-> linked, roles |-> roles]

\* a song with localized names and credits in every role
SongA ==
    [complete |-> TRUE, hasNames |-> TRUE,
     names |-> <<[language |-> "English", value |-> "Foo"]>>,
     defaultName |-> "Dflt", defaultNameLanguage |-> "Romaji",
     id |-> 11, artistString |-> <<"A", FeatToken, "V">>, lengthSeconds |-> 200,
     artists |-> << MkSongCredit(<<"l (credit)">>, [name |-> <<"Lyr">>, id |-> 5],
                                 {"Lyricist", "Composer"}),
                    MkSongCredit(<<"arr">>, NoLink, {"Arranger"}),
                    MkSongCredit(<<"m (credit)">>, [name |-> <<"Lyr2">>, id |-> 6],
                                 {"Lyricist"}) >>]

\* a song with no localized names and no credits
SongB ==
    [complete |-> TRUE, hasNames |-> FALSE, names |-> <<>>,
     defaultName |-> "Dflt", defaultNameLanguage |-> "Romaji",
     id |-> 12, artistString |-> <<"B">>, lengthSeconds |-> 90,
     artists |-> <<>>]

\* a song object that lacks the fields get_track_info reads (a KeyError)
SongBroken == [SongB EXCEPT !.complete = FALSE]

\* a track record without 'song'; also what any non-dict element is to
\* get_track_info, whose item['song'] raises inside the try
NoSongEntry == [hasSong |-> FALSE, song |-> SongB, discNumber |-> 0, trackNumber |-> 0]

TrackNumbers == {1, 2, 5}

WellFormedEntries ==
    [hasSong : {TRUE}, song : {SongA}, discNumber : {1}, trackNumber : TrackNumbers]
    \cup
    [hasSong : {TRUE}, song : {SongB}, discNumber : {2}, trackNumber : TrackNumbers]

BrokenEntry == [hasSong |-> TRUE, song |-> SongBroken, discNumber |-> 1, trackNumber |-> 1]

CreditName(a) == IF a.hasArtist THEN a.artist.name ELSE a.name

\* separator.join(names)
RECURSIVE JoinNames(_, _)
JoinNames(names, sep) ==
    IF names = <<>> THEN <<>>
    ELSE IF Len(names) = 1 THEN names[1]
    ELSE names[1] \o <<sep>> \o JoinNames(Tail(names), sep)

\* lines 149-165: the names of the credits holding `role`, joined, or None
RoleString(song, role, sep) ==
    LET holds(a) == role \in a.roles
        sel == SelectSeq(song.artists, holds)
        joined == JoinNames([i \in 1..Len(sel) |-> CreditName(sel[i])], sep)
    IN  IF joined = <<>> THEN None ELSE Some(joined)

\* line 136
Placeholder ==
    [title |-> "dummy_title", track_id |-> 0, artist |-> None, length |-> None,
     medium |-> None, medium_index |-> 0, lyricist |-> None, composer |-> None,
     arranger |-> None, index |-> None, disctitle |-> None]

Raised == [raised |-> TRUE, value |-> None]
Returned(v) == [raised |-> FALSE, value |-> v]

\* a plausible slip: no try/except around item['song']
get_track_info_nocatch(e, langs, config) ==
    IF ~e.hasSong \/ ~e.song.complete THEN Raised
    ELSE Returned(
        [title |-> get_preferred_name(e.song, langs).item_name,
         track_id |-> e.song.id, artist |-> Some(e.song.artistString),
         length |-> Some(e.song.lengthSeconds),
         medium |-> Some(e.discNumber), medium_index |-> e.trackNumber,
         lyricist |-> RoleString(e.song, "Lyricist", config.separator),
         composer |-> RoleString(e.song, "Composer", config.separator),
         arranger |-> RoleString(e.song, "Arranger", config.separator),
         index |-> None, disctitle |-> None])

get_track_info(e, langs, config) ==
    IF ~e.hasSong THEN Returned(Placeholder)
    ELSE IF ~e.song.complete THEN Raised
    ELSE Returned(
        [title |-> get_preferred_name(e.song, langs).item_name,
         track_id |-> e.song.id, artist |-> Some(e.song.artistString),
         length |-> Some(e.song.lengthSeconds),
         medium |-> Some(e.discNumber), medium_index |-> e.trackNumber,
         lyricist |-> RoleString(e.song, "Lyricist", config.separator),
         composer |-> RoleString(e.song, "Composer", config.separator),
         arranger |-> RoleString(e.song, "Arranger", config.separator),
         index |-> None, disctitle |-> None])

(***************************************************************************)
(* Remote responses.  kind: "transport" (requests.get raises), "nonjson"   *)
(* (r.json() raises), "json".  A JSON body has a shape: "null", "object"   *)
(* or "list"; iterating an object yields its keys, which get_track_info    *)
(* treats like records without 'song'.                                     *)
(***************************************************************************)
TransportFailure == [kind |-> "transport", shape |-> "none", entries |-> <<>>]
NonJson == [kind |-> "nonjson", shape |-> "none", entries |-> <<>>]
JsonNull == [kind |-> "json", shape |-> "null", entries |-> <<>>]
\* an object with one key, e.g. {"message": ...}
JsonObject == [kind |-> "json", shape |-> "object", entries |-> <<NoSongEntry>>]
JsonList(es) == [kind |-> "json", shape |-> "list", entries |-> es]

\* lines 94-106
tracks_for_album_id(resp, langs, config) ==
    IF resp.kind = "transport" THEN Raised
    ELSE IF resp.kind = "nonjson" THEN Returned(None)
    ELSE IF resp.shape = "null" THEN Raised          \* iterating None
    ELSE LET conv == [i \in 1..Len(resp.entries) |->
                        get_track_info(resp.entries[i], langs, config)]
         IN  IF \E i \in 1..Len(conv) : conv[i].raised THEN Raised
             ELSE Returned(Some([i \in 1..Len(conv) |-> conv[i].value]))

(***************************************************************************)
(* The indexing loop of get_album_info                                     *)
(***************************************************************************)
\* line 229: the title the dictionary holds for medium m (the last disc of
\* that number wins), None when m is no key
DiscTitle(it, m) ==
    LET hits == {i \in 1..Len(it.discs) : it.discs[i].discNumber = m}
    IN  IF ~it.hasDiscs \/ hits = {} THEN None ELSE Some(it.discs[Max(hits)].name)

\* a plausible slip: the counter is assigned without the max with medium_index
NextIndexNoGap(t, counter) == counter

\* lines 241-242: the overall index of track t when the counter is `counter`
NextIndex(t, counter) ==
    IF t.medium_index > counter THEN t.medium_index ELSE counter

\* lines 240-247, from position i on with the counter at `counter`
RECURSIVE IndexLoop(_, _, _, _)
IndexLoop(ts, i, counter, it) ==
    IF i > Len(ts) THEN [tracks |-> ts, track_index |-> counter]
    ELSE LET t   == ts[i]
             idx == NextIndex(t, counter)
             dt  == IF t.medium = None THEN None ELSE DiscTitle(it, t.medium[1])
             t1  == [t EXCEPT !.index = Some(idx),
                              !.disctitle = IF dt # None /\ dt # Some("")
                                            THEN dt ELSE @]
         IN  IndexLoop([ts EXCEPT ![i] = t1], i + 1, idx + 1, it)

(***************************************************************************)
(* Album JSON and get_album_info                                           *)
(***************************************************************************)
DiscTypes == {"Album", "Compilation"}

TwoDiscs == << [discNumber |-> 1, name |-> "Disc A"], [discNumber |-> 2, name |-> ""] >>

AlbumItem(artistString, discType, credits, hasDiscs) ==
    [shape |-> "album", id |-> 7,
     hasNames |-> TRUE, names |-> <<[language |-> "English", value |-> "Foo"]>>,
     defaultName |-> "Dflt", defaultNameLanguage |-> "Romaji",
     artistString |-> artistString, discType |-> discType,
     hasArtists |-> TRUE, artists |-> credits,
     hasDiscs |-> hasDiscs, discs |-> IF hasDiscs THEN TwoDiscs ELSE <<>>]

\* a JSON object that is no album (an error object, say): the reads of
\* get_album_info raise KeyError
ErrorItem ==
    [AlbumItem(<<>>, "Album", <<>>, FALSE) EXCEPT !.shape = "other"]

\* nothing decoded yet
NoItem ==
    [AlbumItem(<<>>, "Album", <<>>, FALSE) EXCEPT !.shape = "none"]

AlbumResponse(kind, body) == [kind |-> kind, body |-> body]

\* lines 262-268
AlbumInfo(it, langs, st, ts) ==
    [album |-> get_preferred_name(it, langs).item_name,
     album_id |-> it.id,
     artist |-> CleanupArtist(st.artist),
     artist_id |-> st.artist_id,
     tracks |-> ts,
     albumtype |-> it.discType,
     va |-> IsVA(it),
     label |-> Label(it),
     mediums |-> IF it.hasDiscs THEN Len(it.discs) ELSE 0,
     language |-> get_preferred_name(it, langs).language,
     artist_credit |-> st.artist_credit,
     data_source |-> "VocaDB"]

\* lines 174-268 as one call: raised, or the AlbumInfo returned
get_album_info(it, config, langs, tresp) ==
    IF it.shape # "album" THEN Raised
    ELSE LET st == Disambiguated(it, config, StartLocals(it))
             tr == tracks_for_album_id(tresp, langs, config)
         IN  IF tr.raised \/ tr.value = None THEN Raised    \* line 240 iterates None
             ELSE Returned(AlbumInfo(it, langs, st,
                                     IndexLoop(tr.value[1], 1, 1, it).tracks))

NoPair == [item_name |-> "", language |-> ""]

NameIdle == /\ lang = <<"English">>
            /\ entity = [hasNames |-> FALSE]
            /\ pnPc = "idle"
            /\ pnOut = NoPair

SearchResponse(kind, shape, albums) == [kind |-> kind, shape |-> shape, items |-> albums]

SearchIdle ==
    /\ searchResp = SearchResponse("transport", "none", <<>>)
    /\ albumTracks = <<>>
    /\ sPc = "idle"
    /\ converted = <<>>
    /\ sResult = <<>>

(***************************************************************************)
(* Genre backfill: tag responses and the host's records                    *)
(***************************************************************************)
TagResponse(kind, tags) == [kind |-> kind, tags |-> tags]

\* obj['tags'] absent or empty is tags = <<>>
TagResponses ==
    { TagResponse("transport", <<>>), TagResponse("nonjson", <<>>),
      TagResponse("json", <<>>), TagResponse("json", <<"Rock">>),
      TagResponse("json", <<"Rock", "VOCALOID">>) }

\* str.lower() on the tag names of the model
Lower(tag) ==
    CASE tag = "Rock" -> "rock"
      [] tag = "VOCALOID" -> "vocaloid"
      [] OTHER -> tag

\* lastgenre's resolver (an external collaborator): the tags of its whitelist,
\* in order, joined
Whitelist == {"rock"}
InWhitelist(t) == t \in Whitelist
resolve_genres(tags, sep) ==
    JoinNames([i \in 1..Len(SelectSeq(tags, InWhitelist)) |->
                  <<SelectSeq(tags, InWhitelist)[i]>>], sep)

\* lines 286-293: the genre string computed from a decoded response
GenreOf(resp, config) ==
    IF resp.tags = <<>> THEN <<>>
    ELSE LET tags == [i \in 1..Len(resp.tags) |-> Lower(resp.tags[i])]
         IN  IF config.whitelist
             THEN resolve_genres(tags, config.separator)
             ELSE JoinNames([i \in 1..Len(tags) |-> <<tags[i]>>], config.separator)

OldGenre == <<"old">>
FreshRecord == [genre |-> OldGenre, stored |-> FALSE]

Tasks == { [is_album |-> TRUE,  data_source |-> Some("VocaDB")],
           [is_album |-> TRUE,  data_source |-> Some("MusicBrainz")],
           [is_album |-> TRUE,  data_source |-> None],
           [is_album |-> FALSE, data_source |-> Some("VocaDB")] }

GenreIdle ==
    /\ task = [is_album |-> FALSE, data_source |-> None]
    /\ tagResp = TagResponse("transport", <<>>)
    /\ trackTagResp = <<>>
    /\ albumRec = FreshRecord
    /\ trackRecs = <<>>
    /\ gPc = "idle"
    /\ gTrack = 0

(***************************************************************************)
(* album_for_id, step by step                                              *)
(***************************************************************************)
LookupIdle ==
    /\ albumResp = AlbumResponse("transport", NoItem)
    /\ tracksResp = TransportFailure
    /\ pc = "idle"
    /\ item = NoItem
    /\ artist = <<>>
    /\ artist_id = None
    /\ artist_credit = None
    /\ artist_corrected = FALSE
    /\ va = FALSE
    /\ tiers = <<>>
    /\ tracks = None
    /\ track_index = 0
    /\ result = None

LookupStart ==
    /\ pc = "call"
    /\ item = NoItem
    /\ artist = <<>>
    /\ artist_id = None
    /\ artist_credit = None
    /\ artist_corrected = FALSE
    /\ va = FALSE
    /\ tiers = <<>>
    /\ tracks = None
    /\ track_index = 0
    /\ result = None

remote == <<cfg, albumResp, tracksResp>>
resolverLocals == <<artist, artist_id, artist_credit, artist_corrected, va, tiers>>

\* lines 82-92 up to the call of get_album_info
AlbumForId ==
    /\ pc = "call"
    /\ IF albumResp.kind = "transport"
       THEN pc' = "raised" /\ UNCHANGED <<item, result>>
       ELSE IF albumResp.kind = "nonjson"
       THEN pc' = "done" /\ result' = None /\ UNCHANGED item
       ELSE pc' = "info" /\ item' = albumResp.body /\ UNCHANGED result
    /\ UNCHANGED <<remote, resolverLocals, tracks, track_index, nameVars, searchVars, genreVars>>

\* lines 176-182
AlbumInfoStart ==
    /\ pc = "info"
    /\ IF item.shape # "album"
       THEN pc' = "raised" /\ UNCHANGED resolverLocals
       ELSE /\ pc' = "resolve"
            /\ artist' = StartLocals(item).artist
            /\ artist_id' = StartLocals(item).artist_id
            /\ artist_credit' = StartLocals(item).artist_credit
            /\ artist_corrected' = FALSE
            /\ tiers' = <<>>
            /\ va' = IsVA(item)
    /\ UNCHANGED <<remote, item, tracks, track_index, result, nameVars, searchVars, genreVars>>

\* lines 185-217
Disambiguate ==
    /\ pc = "resolve"
    /\ LET st == Disambiguated(item, cfg,
                    [artist |-> artist, artist_id |-> artist_id,
                     artist_credit |-> artist_credit,
                     artist_corrected |-> artist_corrected, tiers |-> tiers])
       IN  /\ artist' = st.artist
           /\ artist_id' = st.artist_id
           /\ artist_credit' = st.artist_credit
           /\ artist_corrected' = st.artist_corrected
           /\ tiers' = st.tiers
    /\ pc' = "tracks"
    /\ UNCHANGED <<remote, item, va, tracks, track_index, result, nameVars, searchVars, genreVars>>

\* line 237
FetchTracks ==
    /\ pc = "tracks"
    /\ LET tr == tracks_for_album_id(tracksResp, lang, cfg)
       IN  IF tr.raised
           THEN pc' = "raised" /\ UNCHANGED tracks
           ELSE pc' = "index" /\ tracks' = tr.value
    /\ UNCHANGED <<remote, item, resolverLocals, track_index, result, nameVars, searchVars, genreVars>>

\* lines 239-247
IndexTracks ==
    /\ pc = "index"
    /\ IF tracks = None
       THEN pc' = "raised" /\ UNCHANGED <<tracks, track_index>>
       ELSE LET ix == IndexLoop(tracks[1], 1, 1, item)
            IN  /\ tracks' = Some(ix.tracks)
                /\ track_index' = ix.track_index
                /\ pc' = "return"
    /\ UNCHANGED <<remote, item, resolverLocals, result, nameVars, searchVars, genreVars>>

\* lines 250-268, and the return of album_for_id
ReturnAlbumInfo ==
    /\ pc = "return"
    /\ artist' = CleanupArtist(artist)
    /\ result' = Some(AlbumInfo(item, lang,
                    [artist |-> artist, artist_id |-> artist_id,
                     artist_credit |-> artist_credit],
                    tracks[1]))
    /\ pc' = "done"
    /\ UNCHANGED <<remote, item, artist_id, artist_credit, artist_corrected, va,
                   tiers, tracks, track_index, nameVars, searchVars, genreVars>>

LookupNext ==
    \/ AlbumForId
    \/ AlbumInfoStart
    \/ Disambiguate
    \/ FetchTracks
    \/ IndexTracks
    \/ ReturnAlbumInfo

\* ---- the resolver under every configuration and credit list
OneTrack == JsonList(<< [hasSong |-> TRUE, song |-> SongA, discNumber |-> 1,
                         trackNumber |-> 1] >>)

ArtistInit ==
    /\ NameIdle
    /\ GenreIdle
    /\ SearchIdle
    /\ cfg \in Configs
    /\ albumResp \in { AlbumResponse("json", AlbumItem(s, d, cs, TRUE)) :
                         s \in ArtistStrings, d \in DiscTypes,
                         cs \in SeqsOf(Credits, 0, MaxCredits) }
    /\ tracksResp = OneTrack
    /\ LookupStart

SpecArtist == ArtistInit /\ [][LookupNext]_vars

\* ---- the lookup under every remote outcome
TrackEntries == WellFormedEntries \cup {NoSongEntry}

TrackResponses ==
    {TransportFailure, NonJson, JsonNull, JsonObject}
    \cup { JsonList(es) : es \in SeqsOf(TrackEntries, 0, MaxTracks) }

LookupInit ==
    /\ NameIdle
    /\ GenreIdle
    /\ SearchIdle
    /\ cfg \in {DefaultConfig, [DefaultConfig EXCEPT !.canonical_artists = FALSE]}
    /\ albumResp \in
         { AlbumResponse("transport", NoItem), AlbumResponse("nonjson", NoItem),
           AlbumResponse("json", ErrorItem) }
         \cup { AlbumResponse("json", AlbumItem(<<"A">>, "Album", cs, h)) :
                  cs \in {<<>>, <<CHOOSE c \in ProducerCredits : c.hasArtist /\ ~c.isSupport>>},
                  h \in BOOLEAN }
    /\ tracksResp \in TrackResponses
    /\ LookupStart

SpecLookup == LookupInit /\ [][LookupNext]_vars

NameInit == /\ LookupIdle
            /\ GenreIdle
            /\ cfg = DefaultConfig
            /\ SearchIdle
            /\ lang \in LangLists
            /\ entity \in Entities
            /\ pnPc = "call"
            /\ pnOut = NoPair

CallGetPreferredName ==
    /\ pnPc = "call"
    /\ pnOut' = get_preferred_name(entity, lang)
    /\ pnPc' = "done"
    /\ UNCHANGED <<lang, entity, lookupVars, searchVars, genreVars>>

NameNext == CallGetPreferredName

SpecName == NameInit /\ [][NameNext]_vars

(***************************************************************************)
(* candidates / get_albums, step by step.  The query only feeds the URL;   *)
(* the remote's answer is an input whatever the query.                     *)
(***************************************************************************)
FoundAlbum == AlbumItem(<<"A">>, "Album", <<>>, FALSE)

SearchTrackEntries ==
    { [hasSong |-> TRUE, song |-> SongA, discNumber |-> 1, trackNumber |-> 1],
      NoSongEntry, BrokenEntry }

SearchTrackResponses ==
    {TransportFailure, NonJson, JsonNull, JsonObject}
    \cup { JsonList(es) : es \in SeqsOf(SearchTrackEntries, 0, MaxSearchTracks) }

\* a found album with the remote's answer to its track-list request; a
\* malformed album object has no request made for it
Found ==
    [album : {FoundAlbum}, tresp : SearchTrackResponses]
    \cup [album : {ErrorItem}, tresp : {TransportFailure}]

SearchInit ==
    /\ NameIdle
    /\ GenreIdle
    /\ LookupIdle
    /\ cfg = DefaultConfig
    /\ \E fs \in SeqsOf(Found, 0, MaxAlbums) :
         /\ searchResp \in
              { SearchResponse("json", "items", [i \in 1..Len(fs) |-> fs[i].album]) }
              \cup (IF fs = <<>>
                    THEN { SearchResponse("transport", "none", <<>>),
                           SearchResponse("nonjson", "none", <<>>),
                           SearchResponse("json", "other", <<>>) }
                    ELSE {})
         /\ albumTracks = [i \in 1..Len(fs) |-> fs[i].tresp]
    /\ sPc = "call"
    /\ converted = <<>>
    /\ sResult = <<>>

\* lines 41-43 and 55-76: the request and the decoding; sPc = "except" is an
\* exception on its way to the handler of candidates
GetAlbums ==
    /\ sPc = "call"
    /\ IF searchResp.kind = "transport"
       THEN sPc' = "except" /\ UNCHANGED sResult
       ELSE IF searchResp.kind = "nonjson"
       THEN sPc' = "done" /\ sResult' = <<>>           \* line 74, returned by line 43
       ELSE IF searchResp.shape # "items"
       THEN sPc' = "except" /\ UNCHANGED sResult       \* item['items'] raises
       ELSE sPc' = "convert" /\ UNCHANGED sResult
    /\ UNCHANGED <<searchResp, albumTracks, converted, nameVars, lookupVars, genreVars>>

\* line 77: one element of the list comprehension
ConvertAlbum ==
    /\ sPc = "convert"
    /\ Len(converted) < Len(searchResp.items)
    /\ LET k == Len(converted) + 1
           r == get_album_info(searchResp.items[k], cfg, lang, albumTracks[k])
       IN  IF r.raised
           THEN sPc' = "except" /\ UNCHANGED converted
           ELSE sPc' = "convert" /\ converted' = Append(converted, r.value)
    /\ UNCHANGED <<searchResp, albumTracks, sResult, nameVars, lookupVars, genreVars>>

\* line 77 then line 43: the list is returned
ReturnCandidates ==
    /\ sPc = "convert"
    /\ Len(converted) = Len(searchResp.items)
    /\ sResult' = converted
    /\ sPc' = "done"
    /\ UNCHANGED <<searchResp, albumTracks, converted, nameVars, lookupVars, genreVars>>

\* lines 44-46: the bare except of candidates
CandidatesExcept ==
    /\ sPc = "except"
    /\ sResult' = <<>>
    /\ sPc' = "done"
    /\ UNCHANGED <<searchResp, albumTracks, converted, nameVars, lookupVars, genreVars>>

SearchNext ==
    \/ GetAlbums
    \/ ConvertAlbum
    \/ ReturnCandidates
    \/ CandidatesExcept

SpecSearch == SearchInit /\ [][SearchNext]_vars

(***************************************************************************)
(* imported / add_genre_to_item, step by step                              *)
(***************************************************************************)
GenreInit ==
    /\ NameIdle
    /\ LookupIdle
    /\ SearchIdle
    /\ cfg \in {DefaultConfig, [DefaultConfig EXCEPT !.whitelist = FALSE]}
    /\ task \in Tasks
    /\ tagResp \in TagResponses
    /\ trackTagResp \in SeqsOf(TagResponses, 0, MaxGenreTracks)
    /\ albumRec = FreshRecord
    /\ trackRecs = [i \in 1..Len(trackTagResp) |-> FreshRecord]
    /\ gPc = "hook"
    /\ gTrack = 0

genreInputs == <<task, tagResp, trackTagResp>>

\* lines 302-307
Imported ==
    /\ gPc = "hook"
    /\ IF task.is_album /\ task.data_source = Some("VocaDB")
       THEN gPc' = "album"
       ELSE gPc' = "done"
    /\ UNCHANGED <<genreInputs, albumRec, trackRecs, gTrack,
                   nameVars, lookupVars, searchVars>>

\* lines 270-296 for the album (is_album true)
AddGenreAlbum ==
    /\ gPc = "album"
    /\ IF tagResp.kind = "transport"
       THEN gPc' = "raised" /\ UNCHANGED <<albumRec, gTrack>>
       ELSE IF tagResp.kind = "nonjson"
       THEN gPc' = "done" /\ UNCHANGED <<albumRec, gTrack>>     \* line 283
       ELSE /\ albumRec' = [genre |-> GenreOf(tagResp, cfg), stored |-> TRUE]
            /\ gTrack' = 1
            /\ gPc' = "tracks"
    /\ UNCHANGED <<genreInputs, trackRecs, nameVars, lookupVars, searchVars>>

\* lines 299-300: one iteration, add_genre_to_item(track, False)
AddGenreTrack ==
    /\ gPc = "tracks"
    /\ gTrack <= Len(trackRecs)
    /\ IF trackTagResp[gTrack].kind = "transport"
       THEN gPc' = "raised" /\ UNCHANGED <<trackRecs, gTrack>>
       ELSE IF trackTagResp[gTrack].kind = "nonjson"
       THEN gPc' = "tracks" /\ gTrack' = gTrack + 1 /\ UNCHANGED trackRecs
       ELSE /\ trackRecs' = [trackRecs EXCEPT ![gTrack] =
                               [genre |-> GenreOf(trackTagResp[gTrack], cfg),
                                stored |-> TRUE]]
            /\ gTrack' = gTrack + 1
            /\ gPc' = "tracks"
    /\ UNCHANGED <<genreInputs, albumRec, nameVars, lookupVars, searchVars>>

\* the loop of line 299 is over
GenreReturn ==
    /\ gPc = "tracks"
    /\ gTrack > Len(trackRecs)
    /\ gPc' = "done"
    /\ UNCHANGED <<genreInputs, albumRec, trackRecs, gTrack,
                   nameVars, lookupVars, searchVars>>

GenreNext ==
    \/ Imported
    \/ AddGenreAlbum
    \/ AddGenreTrack
    \/ GenreReturn

SpecGenre == GenreInit /\ [][GenreNext]_vars

\* ---- C3 -----------------------------------------------------------------
DefaultPair(ent) ==
    [item_name |-> ent.defaultName, language |-> ent.defaultNameLanguage]

\* the preference entries, by position, that the claim lets match: non-empty
\* and equal to the language of some name
ClaimMatching(ent, langs) ==
    {k \in 1..Len(langs) :
        langs[k] # "" /\ \E i \in 1..Len(ent.names) : ent.names[i].language = langs[k]}

ClaimedPreferredName(ent, langs) ==
    IF ClaimMatching(ent, langs) = {} THEN DefaultPair(ent)
    ELSE LET l == langs[Min(ClaimMatching(ent, langs))]
             i == Min({n \in 1..Len(ent.names) : ent.names[n].language = l})
         IN  [item_name |-> ent.names[i].value, language |-> ent.names[i].language]

\* every name of the entity has a language tag and a value (what the remote
\* service sends for a real entity)
ProperNames(ent) ==
    \A i \in 1..Len(ent.names) :
        ent.names[i].language # "" /\ ent.names[i].value # ""

\* C3 as stated: the preference list is walked in order, an empty-string entry
\* matches no name, and the result is the first name whose language equals the
\* earliest preference entry that matches any name; the default pair otherwise.
\* (Stated here for entities whose names all have a language and a value.)
C3_AsClaimed ==
    (pnPc = "done" /\ ProperNames(entity))
        => pnOut = ClaimedPreferredName(entity, lang)

\* name i is the one the code looks at for language l: the first of that language
IsFirstOfLanguage(ent, i, l) ==
    /\ ent.names[i].language = l
    /\ \A j \in 1..(i - 1) : ent.names[j].language # l

\* the preference positions whose first-matching name has a non-empty value
Usable(ent, langs) ==
    {k \in 1..Len(langs) :
        \E i \in 1..Len(ent.names) :
            IsFirstOfLanguage(ent, i, langs[k]) /\ ent.names[i].value # ""}

\* C3 (amended): get_preferred_name returns exactly one (name, language) pair.
\* When the FIRST preference entry is the empty string, or the entity carries no
\* name list, the preference list is not walked and the result is the default
\* pair.  Otherwise the list is walked in order, each entry compared for
\* equality with the names' languages; for an entry only the first name of that
\* language (entity-name order) is looked at, and the result is that name for
\* the earliest entry where its value is non-empty; the default pair when
\* there is none.
C3_PreferredName ==
    pnPc = "done" =>
        IF lang[1] = "" \/ ~entity.hasNames \/ Usable(entity, lang) = {}
        THEN pnOut = DefaultPair(entity)
        ELSE \E i \in 1..Len(entity.names) :
                /\ IsFirstOfLanguage(entity, i, lang[Min(Usable(entity, lang))])
                /\ pnOut = [item_name |-> entity.names[i].value,
                            language  |-> entity.names[i].language]

\* the example of C3: preferences [Japanese, English], names
\* [(English, Foo), (Japanese, X)] resolved to (X, Japanese)
C3_Witness ==
    /\ pnPc = "done"
    /\ lang = <<"Japanese", "English">>
    /\ entity.hasNames
    /\ entity.names = <<[language |-> "English", value |-> "Foo"],
                        [language |-> "Japanese", value |-> "X"]>>
    /\ pnOut = [item_name |-> "X", language |-> "Japanese"]

\* ---- claims about the artist resolver (SpecArtist) -----------------------
\* the resolver has just run: artist still holds its result, before the cleanup
Resolved == pc = "tracks"
DisambiguationOn == ~cfg.canonical_artists

\* positions of the non-support credits of a category, read off the JSON
NonSupport(it, cat) ==
    {i \in 1..Len(it.artists) :
        cat \in it.artists[i].categories /\ ~it.artists[i].isSupport}

Ran(tier) == \E k \in 1..Len(tiers) : tiers[k] = tier

\* C4 as stated: with disambiguation enabled, a release flagged multi-artist is
\* never disambiguated: the primary artist stays the reported string and the
\* credit override stays null.
\* (Stated for releases whose credits all carry a linked artist entry.)
C4_AsClaimed ==
    (/\ Resolved /\ DisambiguationOn /\ va
     /\ \A i \in 1..Len(item.artists) : item.artists[i].hasArtist)
        => (artist = item.artistString /\ artist_credit = None)

\* C4 (amended): the multi-artist flag does not gate the resolver.  A release
\* flagged multi-artist keeps va = true in the returned Release; it is left
\* undisambiguated whenever it carries no non-support Producer and no
\* non-support Circle credit, and otherwise the resolver runs on it as on any
\* other release; whenever the credit override is set it is the originally
\* reported artist string.
C4_MultiArtist ==
    /\ (Resolved /\ DisambiguationOn /\ va)
          => /\ (NonSupport(item, "Producer") = {} /\ NonSupport(item, "Circle") = {})
                    => (artist = item.artistString /\ artist_credit = None)
             /\ artist_credit \in {None, Some(item.artistString)}
    /\ (pc = "done" /\ item.shape = "album"
            /\ (item.artistString = VariousArtists \/ item.discType = "Compilation"))
          => /\ result[1].va
             /\ result[1].artist_credit \in {None, Some(item.artistString)}

\* a compilation with one linked producer, returned with va set, the producer
\* as primary artist and the reported string as credit override
C4_Witness ==
    /\ pc = "done" /\ DisambiguationOn
    /\ item.discType = "Compilation"
    /\ item.artistString = <<"A">>
    /\ result[1].va
    /\ result[1].artist = <<"P">>
    /\ result[1].artist_credit = Some(<<"A">>)

\* the circle positions the claim lets the scan reach: not (excluded while there
\* is at most one producer)
ClaimRemaining(it, config) ==
    {i \in NonSupport(it, "Circle") :
        ~(/\ it.artists[i].artist.name \in config.circles_exclude
          /\ ~(Cardinality(NonSupport(it, "Producer")) > 1))}

ClaimAdoptable(it, config) ==
    {i \in ClaimRemaining(it, config) :
        "Default" \in it.artists[i].roles \/ it.artistString = VariousArtists}

\* C5 as stated: in the circles tier an excluded circle (with at most one
\* producer) is skipped and the scan goes on; the first remaining circle with
\* role Default (any remaining one for the multi-artist sentinel) is adopted.
\* (Stated for releases whose circle credits all carry a linked artist.)
C5_AsClaimed ==
    (/\ Resolved /\ DisambiguationOn /\ Ran("circles")
     /\ \A i \in NonSupport(item, "Circle") : item.artists[i].hasArtist
     /\ ClaimAdoptable(item, cfg) # {})
        => /\ artist = item.artists[Min(ClaimAdoptable(item, cfg))].artist.name
           /\ artist_credit = Some(item.artistString)

\* C6: with disambiguation enabled and priority [producers, circles], a release
\* with exactly one non-support Producer credit resolves to that producer's name
\* (the linked artist's name when the credit has one), the credit override is
\* the originally reported artist string, and the circles tier is not run.
C6_SingleProducer ==
    (/\ pc \in {"tracks", "index", "return", "done"}
     /\ DisambiguationOn
     /\ cfg.artist_priority = <<"producers", "circles">>
     /\ Cardinality(NonSupport(item, "Producer")) = 1)
        => LET p == item.artists[Min(NonSupport(item, "Producer"))]
               pname == IF p.hasArtist THEN p.artist.name ELSE p.name
           IN  /\ artist_credit = Some(item.artistString)
               /\ tiers = <<"producers">>
               /\ pc # "done" => artist = pname
               /\ pc = "done" => /\ result[1].artist = CleanupArtist(pname)
                                 /\ result[1].artist_credit = Some(item.artistString)

\* one producer next to an adoptable circle: the producer wins, circles not run
C6_Witness ==
    /\ pc = "done"
    /\ DisambiguationOn
    /\ cfg.artist_priority = <<"producers", "circles">>
    /\ Cardinality(NonSupport(item, "Producer")) = 1
    /\ \E i \in NonSupport(item, "Circle") :
          item.artists[i].hasArtist /\ "Default" \in item.artists[i].roles
    /\ result[1].artist = <<"P">>
    /\ result[1].artist_credit = Some(item.artistString)

\* C10 as stated: whenever the resolver leaves a primary artist that differs
\* from the originally reported artist string, the credit override equals the
\* originally reported artist string.
C10_AsClaimed ==
    (Resolved /\ DisambiguationOn /\ artist # item.artistString)
        => artist_credit = Some(item.artistString)

\* ---- claims about album_for_id and the track assembly (SpecLookup) -------
AlbumOk == albumResp.kind = "json" /\ albumResp.body.shape = "album"

\* the album request, or the track-list request made for a decoded album,
\* fails at transport level or returns a body that is not JSON
LookupFailure ==
    \/ albumResp.kind \in {"transport", "nonjson"}
    \/ AlbumOk /\ tracksResp.kind \in {"transport", "nonjson"}

\* C1 as stated: when the album request or the nested track-list request fails
\* at transport level or returns a non-JSON body, album_for_id returns null and
\* raises nothing.
C1_AsClaimed ==
    LookupFailure => (pc # "raised" /\ (pc = "done" => result = None))

\* the track list has been indexed
Indexed == pc \in {"return", "done"} /\ tracks # None

IndexOf(ts, k) == ts[k].index[1]

\* C7: the counter starts at 1; the k-th track's overall index is the larger of
\* its within-disc index and the previous overall index + 1 (of its within-disc
\* index and 1 for the first track); so the indices increase strictly, each is
\* at least the within-disc index, and the counter ends at the last index + 1.
C7_SequentialIndex ==
    Indexed =>
        LET ts == tracks[1]
            prev(k) == IF k = 1 THEN 0 ELSE IndexOf(ts, k - 1)
        IN  /\ \A k \in 1..Len(ts) :
                 /\ ts[k].index # None
                 /\ ts[k].medium_index =
                        (IF tracksResp.entries[k].hasSong
                         THEN tracksResp.entries[k].trackNumber ELSE 0)
                 /\ IndexOf(ts, k) = Max({ts[k].medium_index, prev(k) + 1})
                 /\ IndexOf(ts, k) > prev(k)
                 /\ IndexOf(ts, k) >= ts[k].medium_index
            /\ track_index = IF ts = <<>> THEN 1 ELSE IndexOf(ts, Len(ts)) + 1

\* within-disc indices [1, 2, 5] indexed [1, 2, 5], the counter left at 6
C7_Witness ==
    /\ Indexed
    /\ Len(tracks[1]) = 3
    /\ [k \in 1..3 |-> tracks[1][k].medium_index] = <<1, 2, 5>>
    /\ [k \in 1..3 |-> IndexOf(tracks[1], k)] = <<1, 2, 5>>
    /\ track_index = 6

\* the response with the records lacking 'song' taken out
HasSong(e) == e.hasSong
WithoutMalformed(resp) == JsonList(SelectSeq(resp.entries, HasSong))

\* what conversion yields for a response (no index yet)
Converted(resp) == tracks_for_album_id(resp, lang, cfg).value[1]

\* the position, among the well-formed records, of record k
RankAmongWellFormed(resp, k) ==
    Cardinality({j \in 1..k : resp.entries[j].hasSong})

\* C8: a track record lacking its nested song object is replaced by a
\* placeholder (sentinel title, zero identifier, within-disc index 0) and does
\* not abort the batch: the Release has one Track per API entry in the same
\* order, every track (placeholder included) has an overall index, and the
\* well-formed siblings are converted as they are with the malformed records
\* absent.
C8_Placeholder ==
    (AlbumOk /\ tracksResp.kind = "json" /\ tracksResp.shape = "list")
        => /\ pc # "raised"
           /\ Indexed =>
                LET ts == tracks[1]
                    es == tracksResp.entries
                    clean == Converted(WithoutMalformed(tracksResp))
                IN  /\ Len(ts) = Len(es)
                    /\ \A k \in 1..Len(es) :
                          /\ ts[k].index # None
                          /\ ~es[k].hasSong =>
                                /\ ts[k].title = "dummy_title"
                                /\ ts[k].track_id = 0
                                /\ ts[k].medium_index = 0
                          /\ es[k].hasSong =>
                                /\ ts[k].track_id = es[k].song.id
                                /\ [ts[k] EXCEPT !.index = None, !.disctitle = None]
                                      = clean[RankAmongWellFormed(tracksResp, k)]
           /\ pc = "done" => result[1].tracks = tracks[1]

\* a malformed record between two well-formed ones, all three returned
C8_Witness ==
    /\ pc = "done" /\ AlbumOk
    /\ tracksResp.shape = "list"
    /\ Len(tracksResp.entries) = 3
    /\ tracksResp.entries[1].hasSong
    /\ ~tracksResp.entries[2].hasSong
    /\ tracksResp.entries[3].hasSong
    /\ Len(result[1].tracks) = 3
    /\ result[1].tracks[2].title = "dummy_title"
    /\ result[1].tracks[2].index # None
    /\ result[1].tracks[3].track_id = tracksResp.entries[3].song.id

\* ---- claim about candidates (SpecSearch) ---------------------------------
\* a JSON track list of an unexpected shape: not an array, or an array holding
\* a song object without the fields of a song.  (A record that lacks 'song'
\* altogether is the malformed-entry case of C8, not counted here.)
UnexpectedTracks(resp) ==
    /\ resp.kind = "json"
    /\ \/ resp.shape # "list"
       \/ \E i \in 1..Len(resp.entries) :
             resp.entries[i].hasSong /\ ~resp.entries[i].song.complete

\* the track-list request of found album k is made: album k is an album
\* object and no earlier conversion raised
RequestMade(k) ==
    /\ searchResp.items[k].shape = "album"
    /\ \A j \in 1..(k - 1) :
          ~get_album_info(searchResp.items[j], cfg, lang, albumTracks[j]).raised

SearchFailure ==
    \/ searchResp.kind \in {"transport", "nonjson"}
    \/ searchResp.kind = "json" /\ searchResp.shape # "items"
    \/ \E k \in 1..Len(searchResp.items) :
          \/ searchResp.items[k].shape # "album"
          \/ /\ RequestMade(k)
             /\ \/ albumTracks[k].kind \in {"transport", "nonjson"}
                \/ UnexpectedTracks(albumTracks[k])

\* C2 as stated: when the album search or a nested track-list request fails at
\* transport level, returns a non-JSON body or returns JSON of an unexpected
\* shape, candidates returns an empty list (and raises nothing).
C2_AsClaimed ==
    (sPc = "done" /\ SearchFailure) => sResult = <<>>

\* ---- claim about the genre backfill (SpecGenre) --------------------------
HookApplies == task.is_album /\ task.data_source = Some("VocaDB")

\* every response arrives: the only failures are bodies that do not decode
NoTransportFailure ==
    /\ tagResp.kind # "transport"
    /\ \A k \in 1..Len(trackTagResp) : trackTagResp[k].kind # "transport"

\* what the claim leaves in a record whose response is resp
ClaimedRecord(resp) ==
    IF resp.kind = "nonjson" THEN FreshRecord
    ELSE [genre |-> GenreOf(resp, cfg), stored |-> TRUE]

\* C9 as stated: a response that fails to decode aborts the genre assignment of
\* that entity only (its genre unchanged, nothing stored); every other entity
\* of the release, the tracks of a release whose own response failed included,
\* has its genre assigned and stored.
C9_AsClaimed ==
    (gPc = "done" /\ HookApplies /\ NoTransportFailure)
        => /\ albumRec = ClaimedRecord(tagResp)
           /\ \A k \in 1..Len(trackRecs) :
                 trackRecs[k] = ClaimedRecord(trackTagResp[k])

====
